---- MODULE Spec2Model ----
(***************************************************************************)
(* ZexGP: tree-based genetic programming.                                  *)
(*                                                                         *)
(* The model keeps every TreeNode as an object of a heap (a function from  *)
(* object identities to node records), so that copying, aliasing and       *)
(* in-place modification are visible.  SpecTree exercises the TreeManager  *)
(* operators (generate, select, mutate, crossover, duplicate) on three     *)
(* tree slots; SpecRun runs the kernel's evolution loop; SpecSelect applies *)
(* parent selection to an initial population.                              *)
(***************************************************************************)
EXTENDS Integers, Sequences, FiniteSets, TLC

VARIABLES
  heap,      \* the TreeNode objects
  tm,        \* the TreeManager's registry
  ta, tb, tc, last,   \* SpecTree: three tree references, the last operation
  conf,      \* the kernel's configuration
  jobs,      \* the worker count run() was called with (0: no workers)
  pc,        \* where Kernel.run is
  err,       \* the exception that left Kernel.run, if any
  run, gen,  \* the loop variables of Kernel.run
  pop, next_pop, results,   \* its local lists
  workers,   \* the SubRun threads of the generation
  snap,      \* the population (as values) when the generation started
  cancelled, \* the runs that were cancelled
  nfit, ngen \* evaluator calls and generate() calls of the current run

vars == <<heap, tm, ta, tb, tc, last,
          conf, jobs, pc, err, run, gen, pop, next_pop, workers, results,
          snap, cancelled, nfit, ngen>>

treeVars == <<ta, tb, tc, last>>
runVars == <<conf, jobs, pc, err, run, gen, pop, next_pop, workers, results,
             snap, cancelled, nfit, ngen>>

(***************************************************************************)
(* Bounds of the model.                                                    *)
(***************************************************************************)
\* largest tree (in nodes) the model lets an operator build
MaxNodes == 4
\* largest 'depth' argument handed to generate/mutate
MaxDepth == 2
\* largest tree (in nodes) of an individual of a population
MaxRunNodes == 3
\* largest populationSize, maxGenerations, maxRuns and jobs
MaxPop == 3
MaxGen == 2
MaxRuns == 2
MaxJobs == 2
\* largest tournamentSize
MaxTour == 3

(***************************************************************************)
(* Python values.                                                          *)
(***************************************************************************)
\* the None reference (object identities are the positive naturals)
None == 0
\* 'func' of a node or registry entry that has no callable
NoFunc == "None"
\* 'arg_index' of a node or registry entry that has none
NoIndex == -1

\* len(signature(func).parameters) of the callables the drivers register
Params(func) ==
  CASE func = "and" -> 2
    [] func = "not" -> 1
    [] OTHER -> 0

\* the (func, arg_index) arguments the drivers pass to add() for each name
AddArgs(name) ==
  IF name = "d0" THEN [name |-> name, func |-> NoFunc, arg_index |-> 0]
  ELSE [name |-> name, func |-> name, arg_index |-> NoIndex]

(***************************************************************************)
(* TreeManager: the symbol registry.                                       *)
(***************************************************************************)
EmptyTm == [funcs |-> {}, terms |-> {}]

\* TreeManager.add
TmAdd(t, e) ==
  IF e.arg_index # NoIndex
    THEN [t EXCEPT !.terms = {x \in @ : x.name # e.name}
                                \cup {[e EXCEPT !.func = NoFunc]}]
  ELSE IF Params(e.func) >= 1
    THEN [t EXCEPT !.funcs = {x \in @ : x.name # e.name} \cup {e}]
    ELSE [t EXCEPT !.terms = {x \in @ : x.name # e.name} \cup {e}]

RECURSIVE TmAddAll(_, _)
TmAddAll(t, names) ==
  IF names = <<>> THEN t
  ELSE TmAddAll(TmAdd(t, AddArgs(Head(names))), Tail(names))

\* the registries the model runs with
RegChain == TmAddAll(EmptyTm, <<"not", "d0", "one">>)
RegMixed == TmAddAll(EmptyTm, <<"and", "not", "d0">>)
RegRun == TmAddAll(EmptyTm, <<"not", "d0">>)

\* TreeManager.__pick_all, __pick_func, __pick_term: the possible picks
PickAll(t) == t.funcs \cup t.terms
PickFunc(t) == t.funcs
PickTerm(t) == t.terms

(***************************************************************************)
(* Tree values: the structure of a tree, apart from object identity.       *)
(***************************************************************************)
\* the value standing for an empty (None) child slot
NoneV == [name |-> "<None>", func |-> NoFunc, arg_index |-> NoIndex, args |-> <<>>]

\* TreeNode.reset (and __reset_args) on a node value; a pick with neither
\* func nor arg_index raises RuntimeError, which no registry entry does
RECURSIVE Repeat(_, _)
Repeat(x, k) == IF k = 0 THEN <<>> ELSE <<x>> \o Repeat(x, k - 1)

ResetV(e) ==
  IF e.func # NoFunc
    THEN [name |-> e.name, func |-> e.func, arg_index |-> NoIndex,
          args |-> Repeat(NoneV, Params(e.func))]
    ELSE [name |-> e.name, func |-> NoFunc, arg_index |-> e.arg_index,
          args |-> <<>>]

RECURSIVE SizeV(_)
RECURSIVE SizeSeqV(_)
SizeV(v) == IF v = NoneV THEN 0 ELSE 1 + SizeSeqV(v.args)
SizeSeqV(vs) == IF vs = <<>> THEN 0 ELSE SizeV(Head(vs)) + SizeSeqV(Tail(vs))

\* the children a generation strategy can give to node value v, as argument
\* lists; 'budget' is the number of nodes the children may take together
FitsV(args, budget) == SizeSeqV(args) <= budget

RECURSIVE GrowGenV(_, _, _, _)
GrowGenV(t, v, depth, budget) ==
  LET k == Len(v.args)
      opts == IF depth # 0
                THEN UNION { { [n EXCEPT !.args = a] :
                                 a \in GrowGenV(t, n, depth - 1, budget - k) }
                             : n \in {ResetV(e) : e \in PickAll(t)} }
                ELSE {ResetV(e) : e \in PickTerm(t)}
  IN {a \in [1..k -> opts] : FitsV(a, budget)}

RECURSIVE FullGenV(_, _, _, _)
FullGenV(t, v, depth, budget) ==
  LET k == Len(v.args)
      opts == IF depth # 0
                THEN UNION { { [n EXCEPT !.args = a] :
                                 a \in FullGenV(t, n, depth - 1, budget - k) }
                             : n \in {ResetV(e) : e \in PickFunc(t)} }
                ELSE {ResetV(e) : e \in PickTerm(t)}
  IN {a \in [1..k -> opts] : FitsV(a, budget)}

Methods == {"grow", "full"}
Depths == 1..MaxDepth
Registries == {RegChain, RegMixed, RegRun}

\* grow_gen and full_gen on a new node of each symbol, computed once: the
\* argument lists they can leave in a tree of at most MaxNodes nodes
GenTable ==
  [t \in Registries, e \in UNION {PickAll(r) : r \in Registries},
   method \in Methods, depth \in Depths |->
     IF method = "grow" THEN GrowGenV(t, ResetV(e), depth, MaxNodes - 1)
     ELSE FullGenV(t, ResetV(e), depth, MaxNodes - 1)]

\* TreeManager.__tree_gen on a node of symbol e: the argument lists it can
\* leave; the empty set when it raises (assertion or invalid method)
TreeGenV(t, e, method, depth) ==
  IF ~(depth > 0) \/ t.funcs = {} \/ t.terms = {} THEN {}
  ELSE IF method \in Methods /\ depth \in Depths /\ t \in Registries
    THEN GenTable[t, e, method, depth]
  ELSE {}

(***************************************************************************)
(* The heap of TreeNode objects.                                           *)
(*                                                                         *)
(* An intermediate value used more than once is bound by a quantifier over *)
(* a singleton set (or CHOOSE from one), which TLC evaluates once.         *)
(*                                                                         *)
(* The heap is the sequence of the live objects: object n is heap[n], and  *)
(* new objects take the identities after the last one.                     *)
(***************************************************************************)
\* the value of the tree rooted at object n of heap h
RECURSIVE TreeVal(_, _)
RECURSIVE TreeVals(_, _)
TreeVal(h, n) ==
  IF n = None THEN NoneV
  ELSE [name |-> h[n].name, func |-> h[n].func, arg_index |-> h[n].arg_index,
        args |-> TreeVals(h, h[n].args)]
TreeVals(h, ns) ==
  IF ns = <<>> THEN <<>>
  ELSE <<TreeVal(h, Head(ns))>> \o TreeVals(h, Tail(ns))

\* the objects of the tree rooted at n
RECURSIVE Reach(_, _)
Reach(h, n) ==
  IF n = None THEN {}
  ELSE {n} \cup UNION {Reach(h, h[n].args[i]) : i \in 1..Len(h[n].args)}

\* the node records of new objects holding the tree values vs in preorder,
\* the first of them taking identity base + 1
RECURSIVE Cells(_, _)
RECURSIVE CellsSeq(_, _)
RECURSIVE RootIds(_, _)
RootIds(vs, base) ==
  IF vs = <<>> THEN <<>>
  ELSE <<IF Head(vs) = NoneV THEN None ELSE base + 1>>
         \o RootIds(Tail(vs), base + SizeV(Head(vs)))
Cells(v, base) ==
  IF v = NoneV THEN <<>>
  ELSE <<[name |-> v.name, func |-> v.func, arg_index |-> v.arg_index,
          args |-> RootIds(v.args, base + 1)]>>
         \o CellsSeq(v.args, base + 1)
CellsSeq(vs, base) ==
  IF vs = <<>> THEN <<>>
  ELSE Cells(Head(vs), base) \o CellsSeq(Tail(vs), base + SizeV(Head(vs)))

\* new objects for the tree values vs: the heap and the list of their roots
NewObjects(h, vs) ==
  [h |-> h \o CellsSeq(vs, Len(h)), roots |-> RootIds(vs, Len(h))]

\* copy.deepcopy of a list of nodes
DeepCopyArgs(h, args) == NewObjects(h, TreeVals(h, args))

\* mutant of Duplicate: the node itself is returned, not a copy
DuplicateAlias(h, n) == [h |-> h, root |-> n]

\* TreeNode.duplicate: copy.deepcopy of the node
Duplicate(h, n) ==
  CHOOSE c \in { [h |-> r.h, root |-> r.roots[1]]
                 : r \in {DeepCopyArgs(h, <<n>>)} } : TRUE

\* len(node)
NodeLen(h, n) == Len(h[n].args)

(***************************************************************************)
(* TreeNode.select and TreeNode.replace.                                   *)
(***************************************************************************)
\* mutant of DrawDepth: random.randint(0, depth - 1), the + 1 forgotten
DrawDepthFromZero(depth) == 0..(depth - 1)

\* random.randint(0, depth - 1) + 1: the possible draws (none: ValueError)
DrawDepth(depth) == 1..depth

\* TreeNode.select: the possible returns [node, d]
RECURSIVE Select(_, _, _)
Select(h, n, depth) ==
  IF h[n].args # <<>>
    THEN UNION { { IF r.d = depth THEN [node |-> n, d |-> r.d] ELSE r
                   : r \in Select(h, h[n].args[i], depth + 1) }
                 : i \in 1..Len(h[n].args) }
    ELSE { IF d = depth THEN [node |-> n, d |-> d] ELSE [node |-> None, d |-> d]
           : d \in DrawDepth(depth) }

\* mutant of Overwrite: the children are not assigned
OverwriteSymbolOnly(h, n, tree) ==
  [h EXCEPT ![n] = [name |-> h[tree].name, func |-> h[tree].func,
                    arg_index |-> h[tree].arg_index, args |-> h[n].args]]

\* the assignments of replace to self: name, func, arg_index and a deep copy
\* of the children of 'tree'
Overwrite(h, n, tree) ==
  CHOOSE h2 \in { [r.h EXCEPT ![n] = [name |-> h[tree].name,
                                      func |-> h[tree].func,
                                      arg_index |-> h[tree].arg_index,
                                      args |-> r.roots]]
                  : r \in {DeepCopyArgs(h, h[tree].args)} } : TRUE

\* mutant of Replace: the frame one level above the drawn depth runs the
\* assignments (d == depth + 1)
RECURSIVE ReplaceParent(_, _, _)
ReplaceParent(h, n, depth) ==
  IF h[n].args # <<>>
    THEN UNION { { IF r.d = depth + 1 THEN [node |-> n, d |-> r.d] ELSE r
                   : r \in ReplaceParent(h, h[n].args[i], depth + 1) }
                 : i \in 1..Len(h[n].args) }
    ELSE { [node |-> None, d |-> d] : d \in DrawDepth(depth) }

\* TreeNode.replace: the possible outcomes [node, d], d its return value and
\* node the object whose frame (the one with d == depth) runs the
\* assignments, None when no frame does
RECURSIVE Replace(_, _, _)
Replace(h, n, depth) ==
  IF h[n].args # <<>>
    THEN UNION { { IF r.d = depth THEN [node |-> n, d |-> r.d] ELSE r
                   : r \in Replace(h, h[n].args[i], depth + 1) }
                 : i \in 1..Len(h[n].args) }
    ELSE { [node |-> None, d |-> d] : d \in DrawDepth(depth) }

\* the heap tree.replace(donor) leaves under outcome r
Replaced(h, r, donor) ==
  IF r.node = None THEN h ELSE Overwrite(h, r.node, donor)

(***************************************************************************)
(* TreeManager.generate, mutate and crossover.                             *)
(***************************************************************************)
\* TreeManager.generate: the tree values it can return
GenerateV(t, method, depth) ==
  UNION { { [ResetV(e) EXCEPT !.args = a]
            : a \in TreeGenV(t, e, method, depth) }
          : e \in PickFunc(t) }

\* the symbol of an object as a registry entry
SymbolOf(h, n) ==
  [name |-> h[n].name, func |-> h[n].func, arg_index |-> h[n].arg_index]

\* mutant of MutateSymbols: the located node is reset also when it has
\* children
MutateSymbolsAlways(h, t, s) == PickFunc(t)

\* TreeManager.mutate after select() returned s: the symbols the located node
\* can have when __tree_gen starts (a leaf is reset to a picked function)
MutateSymbols(h, t, s) ==
  IF NodeLen(h, s.node) = 0 THEN PickFunc(t) ELSE {SymbolOf(h, s.node)}

\* TreeManager.mutate: the possible outcomes [sub, d, v], sub the located
\* object, d its depth and v the value of the subtree mutate leaves at sub
Mutate(h, t, tree, method, depth) ==
  UNION { UNION { { [sub |-> s.node, d |-> s.d,
                     v |-> [ResetV(e) EXCEPT !.args = a]]
                    : a \in TreeGenV(t, e, method, depth) }
                  : e \in MutateSymbols(h, t, s) }
          : s \in {x \in Select(h, tree, 0) : x.node # None} }

\* the heap mutate leaves under outcome m: sub carries the symbol of m.v and
\* new objects as children
Mutated(h, m) ==
  CHOOSE h2 \in { [r.h EXCEPT ![m.sub] = [name |-> m.v.name, func |-> m.v.func,
                                          arg_index |-> m.v.arg_index,
                                          args |-> r.roots]]
                  : r \in {NewObjects(h, m.v.args)} } : TRUE

\* TreeManager.crossover on heap h, where 'tree' is tree1.duplicate(): the
\* possible outcomes [donor, node, d]
Crossover(h, tree, tree2) ==
  UNION { { [donor |-> s.node, node |-> r.node, d |-> r.d]
            : r \in Replace(h, tree, 0) }
          : s \in {x \in Select(h, tree2, 0) : x.node # None} }

(***************************************************************************)
(* Object identities carry no meaning: every step renames the live objects *)
(* to 1, 2, ... in the order a preorder walk from the roots first meets    *)
(* them.                                                                   *)
(***************************************************************************)
SeqRange(q) == {q[i] : i \in 1..Len(q)}

RECURSIVE Visit(_, _, _)
RECURSIVE VisitSeq(_, _, _)
Visit(h, n, acc) ==
  IF n = None \/ n \in SeqRange(acc) THEN acc
  ELSE VisitSeq(h, h[n].args, Append(acc, n))
VisitSeq(h, ns, acc) ==
  IF ns = <<>> THEN acc ELSE VisitSeq(h, Tail(ns), Visit(h, Head(ns), acc))

\* the new identity of object n under the walk order ord (None if reclaimed)
Ren(ord, n) ==
  IF n \in SeqRange(ord) THEN CHOOSE i \in 1..Len(ord) : ord[i] = n ELSE None

\* the live part of heap h under the walk order ord
RECURSIVE RenAll(_, _)
RenAll(ord, ns) ==
  IF ns = <<>> THEN <<>> ELSE <<Ren(ord, Head(ns))>> \o RenAll(ord, Tail(ns))

RECURSIVE CompactFrom(_, _, _)
CompactFrom(h, ord, i) ==
  IF i > Len(ord) THEN <<>>
  ELSE <<[h[ord[i]] EXCEPT !.args = RenAll(ord, @)]>>
         \o CompactFrom(h, ord, i + 1)

Compact(h, ord) == CompactFrom(h, ord, 1)

(***************************************************************************)
(* SpecTree: the TreeManager operators applied to three tree references,   *)
(* ta and tb (generated trees) and tc (an offspring).                      *)
(***************************************************************************)
NoOp == [op |-> "none", method |-> "none", depth |-> 0,
         root |-> None, node |-> None, d |-> 0]

\* the reference held by a slot
Slot(x) == IF x = "a" THEN ta ELSE IF x = "b" THEN tb ELSE tc

TreeSize(h, n) == SizeV(TreeVal(h, n))

\* variables of the evolution loop, idle in SpecTree
IdleConf == [populationSize |-> 0, maxGenerations |-> 0, maxRuns |-> 0,
             minDepth |-> 0, maxDepth |-> 0, genMethod |-> "none",
             selectMethod |-> "none", tournamentSize |-> 0, ops |-> {}]

RunIdle ==
  /\ conf = IdleConf /\ jobs = 0 /\ pc = "idle" /\ err = "none"
  /\ run = 0 /\ gen = 0
  /\ pop = <<>> /\ next_pop = <<>> /\ workers = <<>> /\ results = <<>>
  /\ snap = <<>> /\ cancelled = {} /\ nfit = 0 /\ ngen = 0

InitTree ==
  /\ heap = <<>>
  /\ tm \in {RegChain, RegMixed}
  /\ ta = None /\ tb = None /\ tc = None
  /\ last = NoOp
  /\ RunIdle

\* the step leaves heap h, the references a, b, c and the record l of what
\* it did
TreeStep(h, a, b, c, l) ==
  \E h2 \in {h} :
    \E ord \in {VisitSeq(h2, <<a, b, c>>, <<>>)} :
      /\ heap' = Compact(h2, ord)
      /\ ta' = Ren(ord, a) /\ tb' = Ren(ord, b) /\ tc' = Ren(ord, c)
      /\ last' = [l EXCEPT !.root = Ren(ord, @), !.node = Ren(ord, @)]
      /\ UNCHANGED <<tm, runVars>>

\* ta = tm.generate(method, depth); tb = tm.generate(full, depth)
TGenerate(x) ==
  /\ Slot(x) = None
  /\ \E method \in IF x = "a" THEN Methods ELSE {"full"}, depth \in Depths :
       \E v \in GenerateV(tm, method, depth) :
         \E o \in {NewObjects(heap, <<v>>)} :
            TreeStep(o.h, IF x = "a" THEN o.roots[1] ELSE ta,
                     IF x = "b" THEN o.roots[1] ELSE tb, tc,
                     [NoOp EXCEPT !.op = "generate", !.method = method,
                                  !.depth = depth, !.root = o.roots[1]])

\* x.select()
TSelect(x) ==
  /\ Slot(x) # None
  /\ \E s \in Select(heap, Slot(x), 0) :
       TreeStep(heap, ta, tb, tc,
                [NoOp EXCEPT !.op = "select", !.root = Slot(x),
                             !.node = s.node, !.d = s.d])

\* tc = x.duplicate()  (reproduction)
TDuplicate(x) ==
  /\ Slot(x) # None
  /\ \E o \in {Duplicate(heap, Slot(x))} :
        TreeStep(o.h, ta, tb, o.root,
                 [NoOp EXCEPT !.op = "duplicate", !.root = o.root,
                              !.node = Slot(x)])

\* tm.mutate(tc, method, depth)
TMutate ==
  /\ tc # None
  /\ \E m \in UNION { Mutate(heap, tm, tc, method, depth)
                      : method \in Methods, depth \in Depths } :
       /\ TreeSize(heap, tc) - TreeSize(heap, m.sub) + SizeV(m.v) <= MaxNodes
       /\ TreeStep(Mutated(heap, m), ta, tb, tc,
                   [NoOp EXCEPT !.op = "mutate", !.root = tc,
                                !.node = m.sub, !.d = m.d])

\* tc = tm.crossover(x, y); the record keeps the donor and the depth drawn,
\* and as root the overwritten object (None when there is none)
TCrossover(x, y) ==
  /\ Slot(x) # None /\ Slot(y) # None
  /\ \E c \in {Duplicate(heap, Slot(x))} :
        \E r \in Crossover(c.h, c.root, Slot(y)) :
          \E h2 \in {Replaced(c.h, r, r.donor)} :
             /\ TreeSize(h2, c.root) <= MaxNodes
             /\ TreeStep(h2, ta, tb, c.root,
                         [NoOp EXCEPT !.op = "crossover", !.root = r.node,
                                      !.node = r.donor, !.d = r.d])

NextTree ==
  \/ \E x \in {"a", "b"} : TGenerate(x)
  \/ TSelect("c")
  \/ \E x \in {"a", "b"} : TDuplicate(x)
  \/ TMutate
  \/ TCrossover("a", "b")
  \/ TCrossover("a", "a")

SpecTree == InitTree /\ [][NextTree]_vars

(***************************************************************************)
(* Kernel and SubRun: configuration, parent selection, operations.         *)
(*                                                                         *)
(* A population is a list of records [tree, fit], tree an object identity. *)
(* Parent selection returns [pairs, errs]: the pairs of positions of the   *)
(* population it can return, and the exceptions it can raise.              *)
(***************************************************************************)
\* class Operation
Operations == {"CROSSOVER", "MUTATION", "REPRODUCTION"}

\* the fitness function the driver hands to the kernel: the number of nodes
\* a tree has beyond the two every generated tree has
Fit(v) == SizeV(v) - 2

\* mutant of GetSelectMethod: an unknown name falls back to 'tournament'
GetSelectMethodDefault(name) ==
  IF name \in {"fitness", "tournament"} THEN name ELSE "tournament"

\* __get_select_method: dict.get(name, -1)
GetSelectMethod(name) ==
  IF name \in {"fitness", "tournament"} THEN name ELSE "-1"

\* __get_depth: random.randint(minDepth, maxDepth)
GetDepth(c) == c.minDepth..c.maxDepth

\* __get_op: random.choices over the operations of positive weight
GetOp(c) == c.ops

RECURSIVE SumFit(_)
SumFit(p) == IF p = <<>> THEN 0 ELSE Head(p).fit + SumFit(Tail(p))

\* the positions random.choices can return under weights of positive sum
Weighted(p) == {i \in 1..Len(p) : p[i].fit > 0}

\* trees.sort(key=fitness, reverse=True) on a list s of positions of p: the
\* sort is stable, equal fitnesses keep their order
RECURSIVE InsertDesc(_, _, _)
InsertDesc(p, x, s) ==
  IF s = <<>> THEN <<x>>
  ELSE IF p[Head(s)].fit >= p[x].fit
    THEN <<Head(s)>> \o InsertDesc(p, x, Tail(s))
    ELSE <<x>> \o s

RECURSIVE SortDesc(_, _)
SortDesc(p, s) ==
  IF s = <<>> THEN <<>>
  ELSE InsertDesc(p, s[Len(s)], SortDesc(p, SubSeq(s, 1, Len(s) - 1)))

\* what a selection can do: outs, the possible [sample, pair] (the positions
\* drawn at random and the pair of positions returned), and errs, the
\* exceptions it can raise; pairs are the pairs of outs
Sel(outs, errs) ==
  [pairs |-> {o.pair : o \in outs}, errs |-> errs, outs |-> outs]

\* the two random.choices draws of the FITNESS branch
Draws(S) == { [sample |-> <<i, j>>, pair |-> <<i, j>>] : i \in S, j \in S }

\* mutant of TopTwo: the sort is forgotten
FirstTwo(p, q) == <<q[1], q[2]>>

\* trees.sort(key=fitness, reverse=True); return trees[0][0], trees[1][0]
TopTwo(p, q) ==
  CHOOSE pr \in { <<s[1], s[2]>> : s \in {SortDesc(p, q)} } : TRUE

\* the TOURNAMENT branch of __select_tree (the same in Kernel and SubRun):
\* trees[0] or trees[1] raises IndexError when fewer than 2 are drawn
Tournament(p, size) ==
  IF size < 2 THEN Sel({}, {"IndexError"})
  ELSE Sel({ [sample |-> q, pair |-> TopTwo(p, q)]
             : q \in [1..size -> 1..Len(p)] }, {})

\* Kernel.__select_tree
KernelSelectTree(p, c) ==
  IF GetSelectMethod(c.selectMethod) = "fitness"
    THEN IF SumFit(p) = 0
           THEN Sel({}, {"ZeroDivisionError"})
           ELSE Sel(Draws(Weighted(p)), {})
  ELSE IF GetSelectMethod(c.selectMethod) = "tournament"
    THEN Tournament(p, c.tournamentSize)
  ELSE Sel({}, {"RuntimeError"})

\* SubRun.__select_tree: the weights are the raw fitnesses; when their sum
\* is 0, random.choices raises ValueError or returns the last individual,
\* as the Python version has it
SubRunSelectTree(p, c) ==
  IF GetSelectMethod(c.selectMethod) = "fitness"
    THEN IF SumFit(p) = 0
           THEN Sel(Draws({Len(p)}), {"ValueError"})
           ELSE Sel(Draws(Weighted(p)), {})
  ELSE IF GetSelectMethod(c.selectMethod) = "tournament"
    THEN Tournament(p, c.tournamentSize)
  ELSE Sel({}, {"RuntimeError"})

\* the operation branches of Kernel.run and SubRun.run on parents t1, t2:
\* the possible outcomes [h, tree], tree the offspring in heap h
Offspring(h, t, c, t1, t2, op) ==
  IF op = "CROSSOVER"
    THEN UNION { { [h |-> Replaced(d.h, r, r.donor), tree |-> d.root]
                   : r \in Crossover(d.h, d.root, t2) }
                 : d \in {Duplicate(h, t1)} }
  ELSE IF op = "MUTATION"
    THEN UNION { { [h |-> Mutated(d.h, m), tree |-> d.root]
                   : m \in UNION { Mutate(d.h, t, d.root, c.genMethod, depth)
                                   : depth \in GetDepth(c) } }
                 : d \in {Duplicate(h, t1)} }
  ELSE { [h |-> d.h, tree |-> d.root] : d \in {Duplicate(h, t1)} }

\* max(pop, key=fitness): the position of the first individual of maximal
\* fitness; ArgMin is its mutant
ArgMin(p) ==
  CHOOSE i \in 1..Len(p) :
    /\ \A j \in 1..Len(p) : p[j].fit >= p[i].fit
    /\ \A j \in 1..(i - 1) : p[j].fit > p[i].fit

ArgMax(p) ==
  CHOOSE i \in 1..Len(p) :
    /\ \A j \in 1..Len(p) : p[j].fit <= p[i].fit
    /\ \A j \in 1..(i - 1) : p[j].fit < p[i].fit

\* mutant of SubRunDone: the loop stops one iteration early
SubRunDoneEarly(w) == Len(w.next_pop) + 1 >= w.size

\* for _ in range(self.__size): the loop of SubRun.run is over
SubRunDone(w) == Len(w.next_pop) >= w.size

\* the thread of a worker is still in its loop
Running(w) == w.err = "none" /\ ~SubRunDone(w)

(***************************************************************************)
(* Sharding and cancellation, which the drivers use (run(jobs=4), a None   *)
(* result) and the specification describes.                                *)
(***************************************************************************)
\* the size of shard w of J shards of a population of P
ShardSize(P, J, w) == IF w < J THEN P \div J ELSE P - (J - 1) * (P \div J)

\* the SubRun threads of a generation, not yet run
RECURSIVE Shards(_, _, _)
Shards(P, J, w) ==
  IF w > J THEN <<>>
  ELSE <<[size |-> ShardSize(P, J, w), next_pop |-> <<>>, err |-> "none"]>>
         \o Shards(P, J, w + 1)

\* the outputs of the workers, concatenated in shard order
RECURSIVE Concat(_)
Concat(ws) == IF ws = <<>> THEN <<>> ELSE Head(ws).next_pop \o Concat(Tail(ws))

\* the exception of the first worker that raised one
RECURSIVE FirstErr(_)
FirstErr(ws) ==
  IF ws = <<>> THEN "none"
  ELSE IF Head(ws).err # "none" THEN Head(ws).err ELSE FirstErr(Tail(ws))

\* mutant of CancelRun: the cancellation ends the run loop
CancelAll(res, r, R) == [results |-> Append(res, None), run |-> R]

\* a cancelled run r of R: its result is absent, the loop goes on
CancelRun(res, r, R) == [results |-> Append(res, None), run |-> r + 1]

(***************************************************************************)
(* Spec: Kernel.run.                                                       *)
(***************************************************************************)
RECURSIVE TreesOf(_)
TreesOf(p) == IF p = <<>> THEN <<>> ELSE <<Head(p).tree>> \o TreesOf(Tail(p))

\* the individuals of a population as values
RECURSIVE PopVals(_, _)
PopVals(h, p) ==
  IF p = <<>> THEN <<>>
  ELSE <<[v |-> TreeVal(h, Head(p).tree), fit |-> Head(p).fit]>>
         \o PopVals(h, Tail(p))

RECURSIVE RenPop(_, _)
RenPop(ord, p) ==
  IF p = <<>> THEN <<>>
  ELSE <<[tree |-> Ren(ord, Head(p).tree), fit |-> Head(p).fit]>>
         \o RenPop(ord, Tail(p))

RECURSIVE RenWorkers(_, _)
RenWorkers(ord, ws) ==
  IF ws = <<>> THEN <<>>
  ELSE <<[Head(ws) EXCEPT !.next_pop = RenPop(ord, @)]>>
         \o RenWorkers(ord, Tail(ws))

\* the step leaves heap h and the lists res (results), p (pop), np
\* (next_pop) and ws (the workers)
RunStep(h, res, p, np, ws) ==
  \E h2 \in {h} :
    \E ord \in {VisitSeq(h2, res \o TreesOf(p) \o TreesOf(np)
                              \o TreesOf(Concat(ws)), <<>>)} :
      /\ heap' = Compact(h2, ord)
      /\ results' = RenAll(ord, res)
      /\ pop' = RenPop(ord, p)
      /\ next_pop' = RenPop(ord, np)
      /\ workers' = RenWorkers(ord, ws)
      /\ UNCHANGED <<tm, treeVars, conf, jobs>>

InitRun ==
  /\ heap = <<>>
  /\ tm = RegRun
  /\ ta = None /\ tb = None /\ tc = None /\ last = NoOp
  /\ conf \in [populationSize : 1..MaxPop, maxGenerations : 0..MaxGen,
               maxRuns : 1..MaxRuns, minDepth : {1}, maxDepth : {1},
               genMethod : {"grow"},
               selectMethod : {"fitness", "tournament", "rank"},
               tournamentSize : {2}, ops : {Operations}]
  /\ jobs \in 0..MaxJobs
  /\ pc = "run" /\ err = "none" /\ run = 0 /\ gen = 0
  /\ pop = <<>> /\ next_pop = <<>> /\ workers = <<>> /\ results = <<>>
  /\ snap = <<>> /\ cancelled = {} /\ nfit = 0 /\ ngen = 0

\* for run in range(maxRuns): pop = []
RunBegin ==
  /\ pc = "run" /\ run < conf.maxRuns
  /\ pc' = "init" /\ gen' = 0 /\ nfit' = 0 /\ ngen' = 0
  /\ RunStep(heap, results, <<>>, <<>>, <<>>)
  /\ UNCHANGED <<err, run, snap, cancelled>>

\* pop.append((tree, fit_func(tree))) with tree = tm.generate(method, depth)
InitIndividual ==
  /\ pc = "init" /\ Len(pop) < conf.populationSize
  /\ \E depth \in GetDepth(conf) :
       \E v \in GenerateV(tm, conf.genMethod, depth) :
         /\ SizeV(v) <= MaxRunNodes
         /\ \E o \in {NewObjects(heap, <<v>>)} :
              RunStep(o.h, results,
                      Append(pop, [tree |-> o.roots[1], fit |-> Fit(v)]),
                      <<>>, <<>>)
  /\ ngen' = ngen + 1 /\ nfit' = nfit + 1
  /\ pc' = IF Len(pop) + 1 = conf.populationSize THEN "gen" ELSE "init"
  /\ UNCHANGED <<err, run, gen, snap, cancelled>>

\* for gen in range(maxGenerations): next_pop = []
GenBegin ==
  /\ pc = "gen" /\ gen < conf.maxGenerations /\ jobs = 0
  /\ pc' = "seq" /\ snap' = PopVals(heap, pop)
  /\ RunStep(heap, results, pop, <<>>, <<>>)
  /\ UNCHANGED <<err, run, gen, cancelled, nfit, ngen>>

\* one iteration of for _ in range(len(pop)) of Kernel.run
KernelStep ==
  /\ pc = "seq" /\ Len(next_pop) < Len(pop)
  /\ \E s \in {KernelSelectTree(pop, conf)} :
       \/ \E e \in s.errs :
            /\ pc' = "error" /\ err' = e
            /\ UNCHANGED <<heap, tm, treeVars, conf, jobs, run, gen, pop,
                           next_pop, workers, results, snap, cancelled,
                           nfit, ngen>>
       \/ \E pr \in s.pairs, op \in GetOp(conf) :
            \E o \in Offspring(heap, tm, conf, pop[pr[1]].tree,
                               pop[pr[2]].tree, op) :
              \E v \in {TreeVal(o.h, o.tree)} :
                /\ SizeV(v) <= MaxRunNodes
                /\ RunStep(o.h, results, pop,
                           Append(next_pop,
                                  [tree |-> o.tree, fit |-> Fit(v)]),
                           <<>>)
                /\ nfit' = nfit + 1
                /\ UNCHANGED <<pc, err, run, gen, snap, cancelled, ngen>>

\* pop = next_pop, the generation is over
GenEnd ==
  /\ pc = "seq" /\ Len(next_pop) = Len(pop)
  /\ pc' = "gen" /\ gen' = gen + 1 /\ snap' = <<>>
  /\ RunStep(heap, results, next_pop, <<>>, <<>>)
  /\ UNCHANGED <<err, run, cancelled, nfit, ngen>>

\* the generation's population is split into jobs shards, one SubRun thread
\* each; more workers than individuals is a configuration error
Dispatch ==
  /\ pc = "gen" /\ gen < conf.maxGenerations /\ jobs >= 1
  /\ IF jobs > Len(pop)
       THEN /\ pc' = "error" /\ err' = "ConfigError"
            /\ UNCHANGED <<heap, tm, treeVars, conf, jobs, run, gen, pop,
                           next_pop, workers, results, snap, cancelled,
                           nfit, ngen>>
       ELSE /\ pc' = "join" /\ snap' = PopVals(heap, pop)
            /\ RunStep(heap, results, pop, <<>>, Shards(Len(pop), jobs, 1))
            /\ UNCHANGED <<err, run, gen, cancelled, nfit, ngen>>

\* one iteration of for _ in range(self.__size) of SubRun.run in worker w; an
\* exception ends the thread
SubRunStep(w) ==
  /\ pc = "join" /\ w \in 1..Len(workers) /\ Running(workers[w])
  /\ \E s \in {SubRunSelectTree(pop, conf)} :
       \/ \E e \in s.errs :
            /\ workers' = [workers EXCEPT ![w].err = e]
            /\ UNCHANGED <<heap, tm, treeVars, conf, jobs, pc, err, run, gen,
                           pop, next_pop, results, snap, cancelled, nfit,
                           ngen>>
       \/ \E pr \in s.pairs, op \in GetOp(conf) :
            \E o \in Offspring(heap, tm, conf, pop[pr[1]].tree,
                               pop[pr[2]].tree, op) :
              \E v \in {TreeVal(o.h, o.tree)} :
                /\ SizeV(v) <= MaxRunNodes
                /\ RunStep(o.h, results, pop, <<>>,
                           [workers EXCEPT ![w].next_pop =
                              Append(@, [tree |-> o.tree, fit |-> Fit(v)])])
                /\ nfit' = nfit + 1
                /\ UNCHANGED <<pc, err, run, gen, snap, cancelled, ngen>>

\* every thread has ended: an exception of a worker ends run(), otherwise
\* the outputs are concatenated in shard order into the next population
Join ==
  /\ pc = "join" /\ \A w \in 1..Len(workers) : ~Running(workers[w])
  /\ IF FirstErr(workers) # "none"
       THEN /\ pc' = "error" /\ err' = FirstErr(workers)
            /\ UNCHANGED <<heap, tm, treeVars, conf, jobs, run, gen, pop,
                           next_pop, workers, results, snap, cancelled,
                           nfit, ngen>>
       ELSE /\ pc' = "gen" /\ gen' = gen + 1 /\ snap' = <<>>
            /\ RunStep(heap, results, Concat(workers), <<>>, <<>>)
            /\ UNCHANGED <<err, run, cancelled, nfit, ngen>>

\* results.append(max(pop, key=fitness)[0])
RunEnd ==
  /\ pc = "gen" /\ gen >= conf.maxGenerations
  /\ pc' = "run" /\ run' = run + 1
  /\ RunStep(heap, Append(results, pop[ArgMax(pop)].tree), pop, <<>>, <<>>)
  /\ UNCHANGED <<err, gen, snap, cancelled, nfit, ngen>>

\* return results
Return ==
  /\ pc = "run" /\ run >= conf.maxRuns
  /\ pc' = "done"
  /\ UNCHANGED <<heap, tm, treeVars, conf, jobs, err, run, gen, pop,
                 next_pop, workers, results, snap, cancelled, nfit, ngen>>

\* the run is cancelled while it initialises or evolves its population: its
\* lists are dropped
Cancel ==
  /\ pc \in {"init", "gen", "seq", "join"}
  /\ \E c \in {CancelRun(results, run, conf.maxRuns)} :
       /\ run' = c.run
       /\ RunStep(heap, c.results, <<>>, <<>>, <<>>)
  /\ pc' = "run" /\ cancelled' = cancelled \cup {run} /\ snap' = <<>>
  /\ UNCHANGED <<err, gen, nfit, ngen>>

NextRun ==
  \/ RunBegin
  \/ InitIndividual
  \/ GenBegin
  \/ KernelStep
  \/ GenEnd
  \/ Dispatch
  \/ \E w \in 1..MaxJobs : SubRunStep(w)
  \/ Join
  \/ RunEnd
  \/ Return
  \/ Cancel

SpecRun == InitRun /\ [][NextRun]_vars

(***************************************************************************)
(* SpecSelect: __select_tree of the kernel and of a worker, applied to an  *)
(* initial population under every selection method and tournament size.    *)
(***************************************************************************)
\* the sequence f[i], ..., f[n] of a function f on 1..n
RECURSIVE SeqFrom(_, _, _)
SeqFrom(f, i, n) == IF i > n THEN <<>> ELSE <<f[i]>> \o SeqFrom(f, i + 1, n)

\* the population list of trees with roots 'roots' and values vs
RECURSIVE Evaluated(_, _)
Evaluated(roots, vs) ==
  IF vs = <<>> THEN <<>>
  ELSE <<[tree |-> Head(roots), fit |-> Fit(Head(vs))]>>
         \o Evaluated(Tail(roots), Tail(vs))

\* no selection made yet
NoSel == [op |-> "none", sample |-> <<>>, t1 |-> None, t2 |-> None,
          err |-> "none"]

\* the initial population of a run: populationSize trees of
\* generate(grow, 2), each with its fitness
InitSelect ==
  /\ tm = RegRun
  /\ ta = None /\ tb = None /\ tc = None /\ last = NoSel
  /\ \E n \in 1..MaxPop :
       \E f \in [1..n -> GenerateV(RegRun, "grow", 2)] :
         \E vs \in {SeqFrom(f, 1, n)} :
           \E o \in {NewObjects(<<>>, vs)} :
             /\ heap = o.h
             /\ pop = Evaluated(o.roots, vs)
             /\ conf \in [populationSize : {n}, maxGenerations : {1},
                          maxRuns : {1}, minDepth : {2},
                          maxDepth : {2}, genMethod : {"grow"},
                          selectMethod : {"fitness", "tournament", "rank"},
                          tournamentSize : 0..MaxTour, ops : {Operations}]
  /\ jobs \in {0, 1}
  /\ pc = "select" /\ err = "none" /\ run = 0 /\ gen = 0
  /\ next_pop = <<>> /\ workers = <<>> /\ results = <<>>
  /\ snap = <<>> /\ cancelled = {} /\ nfit = 0 /\ ngen = 0

\* the call returned the trees of the pair o.pair, or raised e
Selected(who, s) ==
  /\ \/ \E e \in s.errs : last' = [NoSel EXCEPT !.op = who, !.err = e]
     \/ \E o \in s.outs :
          last' = [NoSel EXCEPT !.op = who, !.sample = o.sample,
                                !.t1 = pop[o.pair[1]].tree,
                                !.t2 = pop[o.pair[2]].tree]
  /\ pc' = "selected"
  /\ UNCHANGED <<heap, tm, ta, tb, tc, conf, jobs, err, run, gen, pop,
                 next_pop, workers, results, snap, cancelled, nfit, ngen>>

\* t1, t2 = self.__select_tree(pop) in Kernel.run
KernelSelect ==
  /\ pc = "select" /\ jobs = 0
  /\ \E s \in {KernelSelectTree(pop, conf)} : Selected("Kernel", s)

\* t1, t2 = self.__select_tree(self.__pop) in SubRun.run
SubRunSelect ==
  /\ pc = "select" /\ jobs = 1
  /\ \E s \in {SubRunSelectTree(pop, conf)} : Selected("SubRun", s)

NextSelect ==
  \/ KernelSelect
  \/ SubRunSelect

SpecSelect == InitSelect /\ [][NextSelect]_vars

(***************************************************************************)
(* Properties of the tree operators (SpecTree).                            *)
(***************************************************************************)
\* the depths (root = base) of the leaves of the tree rooted at n
RECURSIVE LeafDepths(_, _, _)
LeafDepths(h, n, base) ==
  IF n = None THEN {}
  ELSE IF h[n].args = <<>> THEN {base}
  ELSE UNION {LeafDepths(h, h[n].args[i], base + 1) : i \in 1..Len(h[n].args)}

\* the root-to-leaf paths of the tree rooted at n, as sequences of objects
RECURSIVE Paths(_, _)
Paths(h, n) ==
  IF h[n].args = <<>> THEN {<<n>>}
  ELSE UNION { {<<n>> \o p : p \in Paths(h, h[n].args[i])}
               : i \in 1..Len(h[n].args) }

LiveRoots == {ta, tb, tc} \ {None}

\* the arity the registry declares for a symbol name
DeclaredArity(t, name) ==
  IF \E e \in t.funcs : e.name = name
    THEN Params((CHOOSE e \in t.funcs : e.name = name).func)
    ELSE 0

\* C2 (as claimed): generate(full, D) puts every leaf at depth exactly D, and
\* generate(grow, D) puts every leaf at depth <= D, the root being at depth 0.
C2_LeafDepthAsClaimed ==
  last.op = "generate" =>
    /\ last.method = "full" =>
         LeafDepths(heap, last.root, 0) = {last.depth}
    /\ last.method = "grow" =>
         \A k \in LeafDepths(heap, last.root, 0) : k <= last.depth

\* C3: every node of every tree that generate, mutate, crossover and
\* duplicate leave has as many children as the registry declares for its
\* symbol, and none of its child slots is None.
C3_ArityInvariant ==
  \A r \in LiveRoots : \A n \in Reach(heap, r) :
    /\ Len(heap[n].args) = DeclaredArity(tm, heap[n].name)
    /\ \A i \in 1..Len(heap[n].args) : heap[n].args[i] # None

C3_Witness ==
  /\ last.op = "crossover" /\ last.root # None
  /\ Len(heap[last.root].args) = 2
  /\ \E n \in Reach(heap, tc) : Len(heap[n].args) = 1

\* C4: a crossover step, and every later mutation of the offspring tc, leaves
\* the parents ta and tb with the structure they had, and the offspring
\* shares no object with ta or tb (also when both parents are ta).
C4_Independent ==
  [][ last'.op \in {"crossover", "mutate"} =>
        /\ TreeVal(heap', ta') = TreeVal(heap, ta)
        /\ TreeVal(heap', tb') = TreeVal(heap, tb)
        /\ Reach(heap', tc') \cap (Reach(heap', ta') \cup Reach(heap', tb')) = {}
    ]_vars

C4_Witness ==
  /\ last.op = "mutate" /\ ta # None /\ tb # None
  /\ TreeVal(heap, tc) # TreeVal(heap, ta)
  /\ TreeVal(heap, tc) # TreeVal(heap, tb)

\* C6: select() on a tree whose root has a child returns neither the root nor
\* None: it returns the object at depth d of a root-to-leaf path, 1 <= d <=
\* the path's length, and every such (object, depth) is a possible return.
C6_Locator ==
  /\ last.op = "select" =>
       /\ last.node # None /\ last.node # last.root
       /\ \E p \in Paths(heap, last.root) :
            /\ last.d \in 1..(Len(p) - 1)
            /\ p[last.d + 1] = last.node
  /\ tc # None =>
       Select(heap, tc, 0) =
         UNION { {[node |-> p[t + 1], d |-> t] : t \in 1..(Len(p) - 1)}
                 : p \in Paths(heap, tc) }

C6_Witness ==
  /\ last.op = "select" /\ last.d = 2
  /\ heap[last.node].args = <<>>
  /\ Len(heap[last.root].args) = 2

\* C7 (as claimed): every crossover overwrites one node of the clone of the
\* first parent with a copy of the donor subtree.
C7_OverwritesAsClaimed ==
  last.op = "crossover" =>
    /\ last.root # None
    /\ TreeVal(heap, last.root) = TreeVal(heap, last.node)

(***************************************************************************)
(* Properties of the evolution loop (SpecRun).                             *)
(***************************************************************************)
InvalidSelect == conf.selectMethod \notin {"fitness", "tournament"}

\* the objects of the trees of a population
PopObjects(h, p) == UNION {Reach(h, p[i].tree) : i \in 1..Len(p)}

C5_SnapshotReadOnly ==
  [][ pc' \in {"seq", "join"} =>
        /\ PopVals(heap', pop') = snap'
        /\ LET outs == next_pop' \o Concat(workers') IN
             /\ PopObjects(heap', pop') \cap PopObjects(heap', outs) = {}
             /\ \A i, j \in 1..Len(outs) :
                  i # j => Reach(heap', outs[i].tree)
                             \cap Reach(heap', outs[j].tree) = {}
        /\ (pc = "join" /\ pc' = "join") =>
             \E w \in 1..Len(workers) :
               /\ \A x \in 1..Len(workers) :
                    x # w => PopVals(heap', workers'[x].next_pop)
                               = PopVals(heap, workers[x].next_pop)
               /\ \/ workers'[w].err # workers[w].err
                  \/ /\ Len(workers'[w].next_pop) = Len(workers[w].next_pop) + 1
                     /\ SubSeq(PopVals(heap', workers'[w].next_pop), 1,
                               Len(workers[w].next_pop))
                          = PopVals(heap, workers[w].next_pop)
    ]_vars

C5_Witness ==
  /\ pc = "join" /\ jobs = 2
  /\ \A w \in 1..Len(workers) : ~Running(workers[w]) /\ workers[w].err = "none"
  /\ PopVals(heap, Concat(workers)) # snap
  /\ \E i \in 1..Len(pop) : pop[i].fit > 0

\* C8: run() returns a list of maxRuns results in run order, and the result
\* of a run that was not cancelled is the tree of an individual of the
\* run's final population (after maxGenerations generations) whose fitness
\* is the maximum over that population.
C8_RunResults ==
  /\ Len(results) = run
  /\ pc = "done" => Len(results) = conf.maxRuns
  /\ \A r \in 1..Len(results) :
       (r - 1) \notin cancelled => results[r] # None
  /\ (pc \in {"run", "done"} /\ run >= 1 /\ (run - 1) \notin cancelled) =>
       /\ gen = conf.maxGenerations
       /\ \E i \in 1..Len(pop) :
            /\ pop[i].tree = results[run]
            /\ \A j \in 1..Len(pop) : pop[j].fit <= pop[i].fit

C8_Witness ==
  /\ pc = "done" /\ run = 2 /\ cancelled = {} /\ gen = 2
  /\ \E i, j \in 1..Len(pop) : pop[i].fit < pop[j].fit
  /\ TreeVal(heap, results[1]) # TreeVal(heap, results[2])

C10_FailsAtFirstSelection ==
  InvalidSelect =>
    /\ gen = 0 /\ next_pop = <<>> /\ Concat(workers) = <<>>
    /\ nfit = ngen /\ ngen <= conf.populationSize
    /\ pc = "error" =>
         \/ err = "ConfigError" /\ jobs > conf.populationSize
         \/ /\ err = "RuntimeError" /\ conf.maxGenerations > 0
            /\ ngen = conf.populationSize /\ nfit = conf.populationSize
    /\ pc \in {"seq", "join"} => conf.maxGenerations > 0

C10_Witness ==
  /\ InvalidSelect /\ pc = "error" /\ err = "RuntimeError"
  /\ nfit = 3 /\ ngen = 3

\* C10 (as claimed): with such a name, run() fails before any individual is
\* generated and before the fitness function is called once.
C10_FailsAtSetup ==
  InvalidSelect => (ngen = 0 /\ nfit = 0)

(***************************************************************************)
(* Properties of parent selection (SpecSelect).                            *)
(***************************************************************************)
\* the fitness recorded in population p for the tree object t
FitOf(p, t) == p[CHOOSE i \in 1..Len(p) : p[i].tree = t].fit

\* C11: tournament selection with tournamentSize k >= 2 raises nothing and
\* can draw every sample of k positions of the population (with
\* replacement); the trees t1, t2 it returns are those of two different
\* draws of the sample, fitness(t1) >= fitness(t2), and every other draw of
\* the sample has a fitness <= fitness(t2).
C11_TournamentTopTwo ==
  (conf.selectMethod = "tournament" /\ conf.tournamentSize >= 2) =>
    LET k == conf.tournamentSize
        P == Len(pop)
    IN /\ last.op = "none" =>
            /\ Tournament(pop, k).errs = {}
            /\ {o.sample : o \in Tournament(pop, k).outs} = [1..k -> 1..P]
       /\ last.op # "none" =>
            /\ last.err = "none"
            /\ last.sample \in [1..k -> 1..P]
            /\ \E i, j \in 1..k :
                 /\ i # j
                 /\ last.t1 = pop[last.sample[i]].tree
                 /\ last.t2 = pop[last.sample[j]].tree
                 /\ FitOf(pop, last.t1) >= FitOf(pop, last.t2)
                 /\ \A m \in 1..k \ {i, j} :
                      pop[last.sample[m]].fit <= FitOf(pop, last.t2)

C11_Witness ==
  /\ last.op = "SubRun" /\ conf.selectMethod = "tournament"
  /\ conf.tournamentSize = 3 /\ Len(pop) = 3
  /\ pop[last.sample[1]].fit < pop[last.sample[2]].fit
  /\ pop[last.sample[2]].fit < pop[last.sample[3]].fit

\* C12 (as claimed): fitness-proportionate selection over a population whose
\* fitnesses sum to 0 returns no pair of parents: the call of the kernel and
\* the call of the worker both end with an exception.
C12_ZeroSumRaises ==
  (conf.selectMethod = "fitness" /\ SumFit(pop) = 0 /\ last.op # "none") =>
    /\ last.err # "none"
    /\ last.t1 = None /\ last.t2 = None

\* C13 (as claimed): tournament selection with a tournamentSize < 2 or above
\* the population size returns no parents: the call ends with an exception.
C13_TournamentSizeRejected ==
  ( /\ conf.selectMethod = "tournament"
    /\ (conf.tournamentSize < 2 \/ conf.tournamentSize > Len(pop))
    /\ last.op # "none" ) =>
    /\ last.err # "none"
    /\ last.t1 = None /\ last.t2 = None

(***************************************************************************)
(* The frame of mutate (SpecTree).  Objects are renamed from step to step, *)
(* so a node is named by its position: the list of child indices that      *)
(* leads to it from the root.                                              *)
(***************************************************************************)
\* the positions of the nodes of the tree rooted at n
RECURSIVE Positions(_, _)
Positions(h, n) ==
  {<<>>} \cup UNION { {<<i>> \o q : q \in Positions(h, h[n].args[i])}
                      : i \in 1..Len(h[n].args) }

\* the object at position q of the tree rooted at n
RECURSIVE NodeAt(_, _, _)
NodeAt(h, n, q) == IF q = <<>> THEN n ELSE NodeAt(h, h[n].args[Head(q)], Tail(q))

\* the position of object x in the tree rooted at n
PositionOf(h, n, x) == CHOOSE q \in Positions(h, n) : NodeAt(h, n, q) = x

\* position q is position p or below it
Below(p, q) == Len(q) >= Len(p) /\ SubSeq(q, 1, Len(p)) = p

\* C14: mutate(tc, method, depth) with depth >= 1 changes the tree only at
\* and below the node select() located, which is not the root: every other
\* position keeps its symbol and child count (the root included), and the
\* other trees stay as they were; a located leaf becomes a node of a
\* registered function, a located function node keeps its symbol, and its
\* children are a subtree __tree_gen generates for that symbol.
C14_MutationFrame ==
  [][ last'.op = "mutate" =>
        \E p \in {PositionOf(heap', tc', last'.node)} :
          /\ Len(p) = last'.d /\ Len(p) >= 1
          /\ p \in Positions(heap, tc)
          /\ {q \in Positions(heap', tc') : ~Below(p, q)}
               = {q \in Positions(heap, tc) : ~Below(p, q)}
          /\ \A q \in {x \in Positions(heap, tc) : ~Below(p, x)} :
               /\ SymbolOf(heap', NodeAt(heap', tc', q))
                    = SymbolOf(heap, NodeAt(heap, tc, q))
               /\ NodeLen(heap', NodeAt(heap', tc', q))
                    = NodeLen(heap, NodeAt(heap, tc, q))
          /\ TreeVal(heap', ta') = TreeVal(heap, ta)
          /\ TreeVal(heap', tb') = TreeVal(heap, tb)
          /\ \E o \in {NodeAt(heap, tc, p)} :
               IF NodeLen(heap, o) = 0
                 THEN /\ SymbolOf(heap', last'.node) \in PickFunc(tm)
                      /\ NodeLen(heap', last'.node) >= 1
                 ELSE SymbolOf(heap', last'.node) = SymbolOf(heap, o)
          /\ TreeVal(heap', last'.node).args \in
               UNION { TreeGenV(tm, SymbolOf(heap', last'.node), method, depth)
                       : method \in Methods, depth \in Depths }
    ]_vars

C14_Witness ==
  /\ last.op = "mutate" /\ last.d = 2 /\ tm = RegMixed
  /\ NodeLen(heap, last.node) = 1
  /\ ta # None /\ tb # None

(***************************************************************************)
(* The roots of the trees of the evolution loop (SpecRun).                 *)
(***************************************************************************)
\* the roots of the trees Kernel.run and its workers hold
RunRoots ==
  SeqRange(results \o TreesOf(pop) \o TreesOf(next_pop)
           \o TreesOf(Concat(workers))) \ {None}

\* C15: the root of every tree of every population, of every offspring list
\* and of the results is a node of a registered function with at least one
\* child; on it select() and replace() always have a depth to draw, which is
\* >= 1, so that neither the located node nor the overwritten node is ever
\* the root.
C15_RootInvariant ==
  \A r \in RunRoots :
    /\ heap[r].func # NoFunc /\ NodeLen(heap, r) >= 1
    /\ SymbolOf(heap, r) \in PickFunc(tm)
    /\ Select(heap, r, 0) # {}
    /\ \A x \in Select(heap, r, 0) : x.d >= 1 /\ x.node \notin {r, None}
    /\ Replace(heap, r, 0) # {}
    /\ \A x \in Replace(heap, r, 0) : x.d >= 1 /\ x.node # r

C15_Witness ==
  /\ pc = "seq" /\ gen = 1 /\ Len(next_pop) = 2
  /\ TreeSize(heap, next_pop[1].tree) # TreeSize(heap, pop[1].tree)
  /\ TreeSize(heap, next_pop[2].tree) # TreeSize(heap, pop[2].tree)

====
